---- MODULE Spec2Model ----
(***************************************************************************)
(* A model of the GitBook multi-strategy downloader.                       *)
(*                                                                         *)
(*   Spec      the fallback orchestrator GitBookMultiDownloader.download   *)
(*             (src/gitbook_multi_downloader.py): the strategy loop, the   *)
(*             consolidation and asset calls, the write of the output      *)
(*             file, the cleanup of the transient directories, and an      *)
(*             interrupt that may strike at any point of the run.          *)
(*                                                                         *)
(*   SpecScraping   ScrapingStrategy.extract_pages                         *)
(*             (src/strategies/scraping_strategy.py): navigation           *)
(*             discovery, the fetch pipeline with its semaphore, and the   *)
(*             consolidator's sort of what the pipeline returns.           *)
(*                                                                         *)
(*   SpecConsolidator   ContentConsolidator                                *)
(*             (src/utils/content_consolidator.py): _sort_pages and        *)
(*             consolidate_pages applied to drawn page lists, with a wall  *)
(*             clock that advances between calls.                          *)
(*                                                                         *)
(* Strings are TLA+ strings; a character is a string of length one.        *)
(* Optional values (Python's None) are sequences of length at most one:    *)
(* None is <<>> and a value x is <<x>>.                                    *)
(***************************************************************************)
EXTENDS Integers, Sequences, FiniteSets, TLC

VARIABLES
    \* ---- GitBookMultiDownloader (src/gitbook_multi_downloader.py) ----
    strategy,             \* self.strategy: "auto" or a pinned strategy name
    keep_temp,            \* self.keep_temp
    include_assets,       \* self.include_assets
    pc,                   \* the position of download()
    idx,                  \* the position of the for loop in strategy_order
    pages,                \* the local variable pages (None, or a list)
    successful_strategy,  \* the local variable successful_strategy
    calls,                \* the strategies tried so far, each with its outcome
    stats,                \* self.stats
    final_content,        \* the local variable final_content
    out_file,             \* what the output path holds (None: no such file)
    old_file,             \* what the output path held when the run began
    f_buf,                \* the open file object's unflushed data (None: not open)
    opened,               \* whether open(self.output_file, 'w') has been called
    cleanup_ran,          \* whether _cleanup_temp_files has been executed
    temp_dirs,            \* the transient directories that exist on disk
    error,                \* the exception being propagated (None: none)
    result,               \* what download() returned (None: nothing yet)
    \* ---- ScrapingStrategy (src/strategies/scraping_strategy.py) ----
    url,                  \* the root URL given to extract_pages
    section_path,         \* the section filter given to extract_pages (None: none)
    max_concurrent,       \* self.max_concurrent
    root_response,        \* what the server answers to the request of the root page
    spc,                  \* the position of extract_pages
    nav_links,            \* the links handed to _download_pages
    task,                 \* per fetch task: its position, delay flag and response
    sem_value,            \* the counter of the semaphore of _download_pages
    waiters,              \* the tasks blocked in the semaphore, first come first
    fetched,              \* the list pages of _download_pages
    returned,             \* what extract_pages returned (None: nothing yet)
    sorted_pages,         \* the consolidator's order of the returned pages
    \* ---- ContentConsolidator (src/utils/content_consolidator.py) ----
    c_pages,              \* the argument pages of consolidate_pages
    base_url,             \* the argument base_url
    c_section,            \* the argument section_path (None: none)
    clock,                \* the wall clock, in half seconds
    docs,                 \* the documents consolidate_pages has returned
    c_sorted              \* what _sort_pages returned for c_pages (None: not called)

dlVars == <<strategy, keep_temp, include_assets, pc, idx, pages,
            successful_strategy, calls, stats, final_content, out_file,
            old_file, f_buf, opened, cleanup_ran, temp_dirs, error, result>>

scVars == <<url, section_path, max_concurrent, root_response, spc, nav_links,
            task, sem_value, waiters, fetched, returned, sorted_pages>>

coVars == <<c_pages, base_url, c_section, clock, docs, c_sorted>>

vars == <<dlVars, scVars, coVars>>

None == <<>>
Some(x) == <<x>>
IsNone(o) == o = <<>>
Get(o) == o[1]

(***************************************************************************)
(* Bounds of the model.                                                    *)
(***************************************************************************)
\* The longest page list a strategy returns.
MaxPages == 3
\* The largest count the asset module reports.
MaxAssets == 1

(***************************************************************************)
(* The orchestrator: GitBookMultiDownloader.download                       *)
(***************************************************************************)
\* The keys of self.strategies.
KnownStrategies == {"github", "sitemap", "scraping"}

\* The values of the strategy option the model draws: auto, each known
\* strategy, and a name that is no key of self.strategies.
StrategyOptions == {"auto"} \cup KnownStrategies \cup {"wiki"}

\* strategy_order of download().
StrategyOrder(s) ==
    IF s = "auto" THEN <<"github", "sitemap", "scraping">> ELSE <<s>>

\* The directories _cleanup_temp_files removes.
TempDirs == {"temp_repo", "temp_download", "selenium_temp"}

\* A page list a strategy returns: its pages are opaque to the orchestrator.
PageList(n) == [i \in 1..n |-> [page |-> i]]

\* What a call of strategy.extract_pages may do: raise, return None, return
\* an empty list, return a list of 1..MaxPages pages.
StrategyOutcomes ==
    {[kind |-> "raises", value |-> None], [kind |-> "returns", value |-> None]}
    \cup {[kind |-> "returns", value |-> Some(PageList(n))] : n \in 0..MaxPages}

\* Python's truth value of pages: None and the empty list are false.
Truthy(p) == ~IsNone(p) /\ Len(Get(p)) > 0

\* Mutant of Succeeded: a list of one page is not accepted.
SucceededMoreThanOne(p) == ~IsNone(p) /\ Len(Get(p)) > 1

\* The acceptance test of the loop: pages and len(pages) > 0.
Succeeded(p) == Truthy(p) /\ Len(Get(p)) > 0

\* Mutant of Exhausted: only None counts as exhaustion (pages is None).
ExhaustedNoneOnly(p) == IsNone(p)

\* The test after the loop: not pages.
Exhausted(p) == ~Truthy(p)

\* The document the consolidator returns for the accepted pages, as the
\* orchestrator sees it: a header chunk and one chunk per page; for no pages
\* the consolidator returns its "No Content Found" text.
ConsolidatedDoc(p) ==
    IF ~Truthy(p)
    THEN <<[kind |-> "nocontent", id |-> 0, refs |-> "remote"]>>
    ELSE <<[kind |-> "header", id |-> Len(Get(p)), refs |-> "remote"]>>
         \o [i \in 1..Len(Get(p)) |->
                [kind |-> "page", id |-> Get(p)[i].page, refs |-> "remote"]]

\* asset_downloader.update_asset_references: every embedded asset reference
\* of the document points at the local directory afterwards.
UpdateAssetReferences(doc) ==
    [i \in 1..Len(doc) |-> [doc[i] EXCEPT !.refs = "local"]]

InitialStats ==
    [strategy_used |-> None, pages_downloaded |-> 0, assets_downloaded |-> 0]

\* The scraping strategy's and the consolidator's own state, while the
\* orchestrator is observed alone.
ScrapingIdle ==
    /\ url = ""
    /\ section_path = None
    /\ max_concurrent = 0
    /\ root_response = None
    /\ spc = "idle"
    /\ nav_links = <<>>
    /\ task = <<>>
    /\ sem_value = 0
    /\ waiters = <<>>
    /\ fetched = <<>>
    /\ returned = None
    /\ sorted_pages = None

ConsolidatorIdle ==
    /\ c_pages = <<>>
    /\ base_url = ""
    /\ c_section = None
    /\ clock = 0
    /\ docs = <<>>
    /\ c_sorted = None

Init ==
    /\ strategy \in StrategyOptions
    /\ keep_temp \in BOOLEAN
    /\ include_assets \in BOOLEAN
    /\ pc = "begin"
    /\ idx = 1
    /\ pages = None
    /\ successful_strategy = None
    /\ calls = <<>>
    /\ stats = InitialStats
    /\ final_content = None
    /\ old_file \in {None, Some(<<[kind |-> "old", id |-> 0, refs |-> "remote"]>>)}
    /\ out_file = old_file
    /\ f_buf = None
    /\ opened = FALSE
    /\ cleanup_ran = FALSE
    /\ temp_dirs = {}
    /\ error = None
    /\ result = None
    /\ ScrapingIdle
    /\ ConsolidatorIdle

\* Where the loop goes after the strategy at position i did not succeed.
AfterFailure(i) ==
    IF i < Len(StrategyOrder(strategy)) THEN "loop" ELSE "after_loop"

\* Lines 71-81: the order is fixed, pages and successful_strategy are None.
Begin ==
    /\ pc = "begin"
    /\ pc' = IF Len(StrategyOrder(strategy)) > 0 THEN "loop" ELSE "after_loop"
    /\ idx' = 1
    /\ pages' = None
    /\ successful_strategy' = None
    /\ UNCHANGED <<strategy, keep_temp, include_assets, calls, stats,
                   final_content, out_file, old_file, f_buf, opened,
                   cleanup_ran, temp_dirs, error, result>>
    /\ UNCHANGED <<scVars, coVars>>

\* Lines 86-89: the strategy is looked up and extract_pages is awaited. A
\* name that is no key of self.strategies raises KeyError inside the try,
\* which the loop logs and passes over (lines 98-102).
InvokeStrategy ==
    /\ pc = "loop"
    /\ LET name == StrategyOrder(strategy)[idx] IN
        IF name \in KnownStrategies
        THEN /\ pc' = "awaiting"
             /\ UNCHANGED <<idx, calls>>
        ELSE /\ calls' = Append(calls, [name |-> name, kind |-> "raises",
                                        value |-> None])
             /\ pc' = AfterFailure(idx)
             /\ idx' = idx + 1
    /\ UNCHANGED <<strategy, keep_temp, include_assets, pages,
                   successful_strategy, stats, final_content, out_file,
                   old_file, f_buf, opened, cleanup_ran, temp_dirs, error,
                   result>>
    /\ UNCHANGED <<scVars, coVars>>

\* Lines 89-102: extract_pages returns or raises. A strategy may leave one
\* of the transient directories behind.
StrategyCompletes ==
    /\ pc = "awaiting"
    /\ \E o \in StrategyOutcomes, left \in {{}} \cup {{d} : d \in TempDirs} :
        LET name == StrategyOrder(strategy)[idx] IN
        /\ calls' = Append(calls, [name |-> name, kind |-> o.kind,
                                   value |-> o.value])
        /\ temp_dirs' = temp_dirs \cup left
        /\ IF o.kind = "raises"
           THEN /\ pc' = AfterFailure(idx)
                /\ idx' = idx + 1
                /\ UNCHANGED <<pages, successful_strategy>>
           ELSE /\ pages' = o.value
                /\ IF Succeeded(o.value)
                   THEN /\ successful_strategy' = Some(name)
                        /\ pc' = "after_loop"
                        /\ UNCHANGED idx
                   ELSE /\ pc' = AfterFailure(idx)
                        /\ idx' = idx + 1
                        /\ UNCHANGED successful_strategy
    /\ UNCHANGED <<strategy, keep_temp, include_assets, stats, final_content,
                   out_file, old_file, f_buf, opened, cleanup_ran, error,
                   result>>
    /\ UNCHANGED <<scVars, coVars>>

\* Lines 104-108: no pages is the terminal failure; otherwise the statistics
\* are recorded.
CheckPages ==
    /\ pc = "after_loop"
    /\ IF Exhausted(pages)
       THEN /\ error' = Some("All download strategies failed")
            /\ pc' = "except"
            /\ UNCHANGED stats
       ELSE /\ stats' = [stats EXCEPT
                           !.strategy_used = successful_strategy,
                           !.pages_downloaded =
                               IF IsNone(pages) THEN 0 ELSE Len(Get(pages))]
            /\ pc' = "consolidate"
            /\ UNCHANGED error
    /\ UNCHANGED <<strategy, keep_temp, include_assets, idx, pages,
                   successful_strategy, calls, final_content, out_file,
                   old_file, f_buf, opened, cleanup_ran, temp_dirs, result>>
    /\ UNCHANGED <<scVars, coVars>>

\* Lines 110-116: the consolidator returns the document, or raises.
Consolidate ==
    /\ pc = "consolidate"
    /\ \/ /\ final_content' = Some(ConsolidatedDoc(pages))
          /\ pc' = IF include_assets THEN "assets" ELSE "open"
          /\ UNCHANGED error
       \/ /\ error' = Some("consolidation failed")
          /\ pc' = "except"
          /\ UNCHANGED final_content
    /\ UNCHANGED <<strategy, keep_temp, include_assets, idx, pages,
                   successful_strategy, calls, stats, out_file, old_file,
                   f_buf, opened, cleanup_ran, temp_dirs, result>>
    /\ UNCHANGED <<scVars, coVars>>

\* Lines 118-130: the assets are downloaded and the document's references
\* rewritten, or the asset module raises.
DownloadAssets ==
    /\ pc = "assets"
    /\ \/ \E n \in 0..MaxAssets :
            /\ stats' = [stats EXCEPT !.assets_downloaded = n]
            /\ final_content' = Some(UpdateAssetReferences(Get(final_content)))
            /\ pc' = "open"
            /\ UNCHANGED error
       \/ /\ error' = Some("asset download failed")
          /\ pc' = "except"
          /\ UNCHANGED <<stats, final_content>>
    /\ UNCHANGED <<strategy, keep_temp, include_assets, idx, pages,
                   successful_strategy, calls, out_file, old_file, f_buf,
                   opened, cleanup_ran, temp_dirs, result>>
    /\ UNCHANGED <<scVars, coVars>>

\* Line 134: open(self.output_file, 'w') creates the file or truncates it
\* to nothing, or fails and leaves the path as it was.
OpenFile ==
    /\ pc = "open"
    /\ opened' = TRUE
    /\ \/ /\ out_file' = Some(<<>>)
          /\ f_buf' = Some(<<>>)
          /\ pc' = "write"
          /\ UNCHANGED error
       \/ /\ error' = Some("write failed")
          /\ pc' = "except"
          /\ UNCHANGED <<out_file, f_buf>>
    /\ UNCHANGED <<strategy, keep_temp, include_assets, idx, pages,
                   successful_strategy, calls, stats, final_content, old_file,
                   cleanup_ran, temp_dirs, result>>
    /\ UNCHANGED <<scVars, coVars>>

\* Line 135: f.write(final_content). The file object buffers: any leading
\* part of the document may reach the path now, the rest waits in the
\* buffer for the close.
WriteFile ==
    /\ pc = "write"
    /\ \E k \in 0..Len(Get(final_content)) :
        LET doc == Get(final_content) IN
        /\ out_file' = Some(SubSeq(doc, 1, k))
        /\ f_buf' = Some(SubSeq(doc, k + 1, Len(doc)))
    /\ pc' = "close"
    /\ UNCHANGED <<strategy, keep_temp, include_assets, idx, pages,
                   successful_strategy, calls, stats, final_content, old_file,
                   opened, cleanup_ran, temp_dirs, error, result>>
    /\ UNCHANGED <<scVars, coVars>>

\* The end of the with block (line 135): the buffer is flushed and the file
\* closed. A flush that fails part-way (a full disk) leaves what reached
\* the path and raises.
CloseFile ==
    /\ pc = "close"
    /\ f_buf' = None
    /\ \/ /\ out_file' = Some(Get(out_file) \o Get(f_buf))
          /\ pc' = IF keep_temp THEN "return" ELSE "cleanup"
          /\ UNCHANGED error
       \/ \E k \in 0..(Len(Get(f_buf)) - 1) :
            /\ out_file' = Some(Get(out_file) \o SubSeq(Get(f_buf), 1, k))
            /\ error' = Some("write failed")
            /\ pc' = "except"
    /\ UNCHANGED <<strategy, keep_temp, include_assets, idx, pages,
                   successful_strategy, calls, stats, final_content, old_file,
                   opened, cleanup_ran, temp_dirs, result>>
    /\ UNCHANGED <<scVars, coVars>>

\* _cleanup_temp_files: every transient directory that exists is removed; a
\* removal that fails is logged and the directory stays.
CleanupTempFiles ==
    /\ cleanup_ran' = TRUE
    /\ \E kept \in SUBSET temp_dirs : temp_dirs' = kept

\* Lines 137-139: the cleanup of the success path, taken unless keep_temp.
CleanupOnSuccess ==
    /\ pc = "cleanup"
    /\ CleanupTempFiles
    /\ pc' = "return"
    /\ UNCHANGED <<strategy, keep_temp, include_assets, idx, pages,
                   successful_strategy, calls, stats, final_content, out_file,
                   old_file, f_buf, opened, error, result>>
    /\ UNCHANGED <<scVars, coVars>>

\* Lines 141-152: the result is returned.
Return ==
    /\ pc = "return"
    /\ result' = Some([success |-> TRUE,
                       strategy_used |-> successful_strategy,
                       pages_downloaded |-> stats.pages_downloaded,
                       assets_downloaded |-> stats.assets_downloaded])
    /\ pc' = "returned"
    /\ UNCHANGED <<strategy, keep_temp, include_assets, idx, pages,
                   successful_strategy, calls, stats, final_content, out_file,
                   old_file, f_buf, opened, cleanup_ran, temp_dirs, error>>
    /\ UNCHANGED <<scVars, coVars>>

\* Lines 154-157: except Exception: the cleanup runs and the error is
\* raised again.
HandleException ==
    /\ pc = "except"
    /\ CleanupTempFiles
    /\ pc' = "raised"
    /\ UNCHANGED <<strategy, keep_temp, include_assets, idx, pages,
                   successful_strategy, calls, stats, final_content, out_file,
                   old_file, f_buf, opened, error, result>>
    /\ UNCHANGED <<scVars, coVars>>

\* The positions at which download() is still running.
Running ==
    {"begin", "loop", "awaiting", "after_loop", "consolidate", "assets",
     "open", "write", "close", "cleanup", "return", "except"}

\* A top-level interrupt: KeyboardInterrupt, or the cancellation of the
\* task (asyncio.CancelledError). Neither is an Exception, so neither the
\* except of the loop (line 98) nor the except of download (line 154)
\* catches it: it leaves download() at once. A file that is open is closed
\* on the way out by its with block, which flushes its buffer.
Interrupt ==
    /\ pc \in Running
    /\ pc' = "interrupted"
    /\ error' = Some("interrupted")
    /\ IF IsNone(f_buf)
       THEN UNCHANGED <<out_file, f_buf>>
       ELSE /\ out_file' = Some(Get(out_file) \o Get(f_buf))
            /\ f_buf' = None
    /\ UNCHANGED <<strategy, keep_temp, include_assets, idx, pages,
                   successful_strategy, calls, stats, final_content, old_file,
                   opened, cleanup_ran, temp_dirs, result>>
    /\ UNCHANGED <<scVars, coVars>>

Next ==
    \/ Begin
    \/ InvokeStrategy
    \/ StrategyCompletes
    \/ CheckPages
    \/ Consolidate
    \/ DownloadAssets
    \/ OpenFile
    \/ WriteFile
    \/ CloseFile
    \/ CleanupOnSuccess
    \/ Return
    \/ HandleException
    \/ Interrupt

Spec == Init /\ [][Next]_vars

(***************************************************************************)
(* Properties of the orchestrator, checked under Spec.                     *)
(***************************************************************************)
\* A tried strategy failed: it raised, or returned None or an empty list.
CallFailed(c) ==
    c.kind = "raises" \/ IsNone(c.value) \/ Len(Get(c.value)) = 0

\* Every strategy of the order has been tried and every one failed.
AllStrategiesFailed ==
    /\ Len(calls) = Len(StrategyOrder(strategy))
    /\ \A i \in 1..Len(calls) : CallFailed(calls[i])

\* C1: download() accepts the first strategy of the order that returns a
\* non-empty list: the strategies are tried in the order, every strategy
\* tried before the accepted one raised or returned nothing, no strategy is
\* invoked once one has returned a non-empty list, and the result reports
\* the accepted strategy's name and the length of its list.
C1_FirstSuccessWins ==
    LET order == StrategyOrder(strategy)
        n == Len(calls)
    IN  /\ n <= Len(order)
        /\ \A i \in 1..n : calls[i].name = order[i]
        /\ \A i \in 1..(n - 1) : CallFailed(calls[i])
        /\ pc \in {"loop", "awaiting"} => \A i \in 1..n : CallFailed(calls[i])
        /\ ~IsNone(result) =>
            /\ n >= 1
            /\ ~CallFailed(calls[n])
            /\ Get(result).strategy_used = Some(calls[n].name)
            /\ Get(result).pages_downloaded = Len(Get(calls[n].value))

\* The scenario of C1: the first strategy raised, the second returned an
\* empty list, the third returned three pages, and download() returned.
C1_Witness ==
    /\ pc = "returned"
    /\ Len(calls) = 3
    /\ calls[1].kind = "raises"
    /\ calls[2].kind = "returns" /\ calls[2].value = Some(<<>>)
    /\ calls[3].kind = "returns" /\ calls[3].value = Some(PageList(3))
    /\ Get(result).strategy_used = Some("scraping")
    /\ Get(result).pages_downloaded = 3

\* C2: when every strategy of the order raised or returned nothing,
\* download() does not return a result, the only error it raises is the
\* terminal "all strategies failed" error, and the output file is neither
\* opened nor changed.
C2_ExhaustionIsTerminal ==
    AllStrategiesFailed =>
        /\ ~opened
        /\ out_file = old_file
        /\ IsNone(result)
        /\ pc \in {"after_loop", "except", "raised", "interrupted"}
        /\ pc \in {"except", "raised"} =>
               error = Some("All download strategies failed")

\* The case of C2: all three strategies of the automatic order failed, one
\* of them with an empty list, and download() raised the terminal error.
C2_Witness ==
    /\ pc = "raised"
    /\ Len(calls) = 3
    /\ AllStrategiesFailed
    /\ \E i \in 1..3 : calls[i].value = Some(<<>>)
    /\ error = Some("All download strategies failed")

\* C3: the output path holds, in every state of a run, either what it held
\* before the run or the complete final document.
C3_AtomicOutput ==
    \/ out_file = old_file
    \/ ~IsNone(final_content) /\ out_file = final_content

\* C4: whenever download() has ended (returned, raised, or been
\* interrupted), _cleanup_temp_files has been executed.
C4_CleanupOnEveryExit ==
    pc \in {"returned", "raised", "interrupted"} => cleanup_ran

(***************************************************************************)
(* Strings, as Python's str methods and the regular expressions of the     *)
(* source use them.                                                        *)
(***************************************************************************)
Char(s, i) == SubSeq(s, i, i)

\* s.startswith(p) and s.endswith(p).
StartsWith(s, p) == Len(p) <= Len(s) /\ SubSeq(s, 1, Len(p)) = p
EndsWith(s, p) == Len(p) <= Len(s) /\ SubSeq(s, Len(s) - Len(p) + 1, Len(s)) = p

\* The least element of a non-empty set of numbers.
MinOf(S) == CHOOSE x \in S : \A y \in S : x <= y

\* The first position at or after from at which sub occurs in s; 0: none.
FindFrom(s, sub, from) ==
    LET hits == {i \in from..(Len(s) - Len(sub) + 1) :
                    SubSeq(s, i, i + Len(sub) - 1) = sub}
    IN  IF hits = {} THEN 0 ELSE MinOf(hits)

\* s.find(sub) + 1.
Find(s, sub) == FindFrom(s, sub, 1)

\* sub in s.
Contains(s, sub) == Find(s, sub) > 0

Lowers == "abcdefghijklmnopqrstuvwxyz"
Uppers == "ABCDEFGHIJKLMNOPQRSTUVWXYZ"
Digits == "0123456789"
Whitespace == {" ", "\t", "\n", "\r", "\f"}

IsDigit(c) == Len(c) = 1 /\ Contains(Digits, c)
IsLetter(c) == Len(c) = 1 /\ (Contains(Lowers, c) \/ Contains(Uppers, c))

LowerChar(c) ==
    LET i == Find(Uppers, c) IN IF i > 0 THEN Char(Lowers, i) ELSE c

UpperChar(c) ==
    LET i == Find(Lowers, c) IN IF i > 0 THEN Char(Uppers, i) ELSE c

\* s.lower(), of the characters lo..hi of s.
RECURSIVE LowerRange(_, _, _)
LowerRange(s, lo, hi) ==
    IF lo > hi THEN ""
    ELSE IF lo = hi THEN LowerChar(Char(s, lo))
    ELSE LET mid == (lo + hi) \div 2 IN
         LowerRange(s, lo, mid) \o LowerRange(s, mid + 1, hi)

\* s.lower().
Lower(s) == LowerRange(s, 1, Len(s))

\* s.lstrip(), s.rstrip() and s.strip().
RECURSIVE LStrip(_)
LStrip(s) ==
    IF s # "" /\ Head(s) \in Whitespace THEN LStrip(Tail(s)) ELSE s

RECURSIVE RStrip(_)
RStrip(s) ==
    IF s # "" /\ Char(s, Len(s)) \in Whitespace
    THEN RStrip(SubSeq(s, 1, Len(s) - 1)) ELSE s

Strip(s) == RStrip(LStrip(s))

\* s.count(c), for a character c.
Count(s, c) == Cardinality({i \in 1..Len(s) : Char(s, i) = c})

\* len(s.split(c)), for a character c.
SplitCount(s, c) == Count(s, c) + 1

\* len(s.split()): the number of maximal runs of non-whitespace characters.
WordCount(s) ==
    Cardinality({i \in 1..Len(s) :
                    /\ Char(s, i) \notin Whitespace
                    /\ (i = 1 \/ Char(s, i - 1) \in Whitespace)})

\* The position of the first decimal digit of s at or after i; 0: none.
FirstDigitFrom(s, i) ==
    LET hits == {j \in i..Len(s) : IsDigit(Char(s, j))} IN
    IF hits = {} THEN 0 ELSE MinOf(hits)

\* int() of the decimal run of s that starts at position i, after acc.
RECURSIVE RunValue(_, _, _)
RunValue(s, i, acc) ==
    IF i <= Len(s) /\ IsDigit(Char(s, i))
    THEN RunValue(s, i + 1, 10 * acc + (Find(Digits, Char(s, i)) - 1))
    ELSE acc

\* re.search(r'(\d+)', s): None, or int(group(1)).
FirstNumber(s) ==
    LET i == FirstDigitFrom(s, 1) IN
    IF i = 0 THEN None ELSE Some(RunValue(s, i, 0))

\* s repeated n times.
RECURSIVE Repeat(_, _)
Repeat(s, n) ==
    IF n <= 0 THEN ""
    ELSE IF n = 1 THEN s
    ELSE Repeat(s, n \div 2) \o Repeat(s, n - (n \div 2))

(***************************************************************************)
(* ContentConsolidator._sort_pages                                         *)
(***************************************************************************)
\* any(word in title for word in [...]) of the two keyword tests.
FirstKeywords == {"readme", "introduction", "intro", "start", "index"}
SecondKeywords == {"getting started", "quick start", "overview"}

Max(a, b) == IF a >= b THEN a ELSE b

\* The score of sort_key, before its sign is turned.
Score(page) ==
    LET title == Lower(page.title)
        lurl == Lower(page.url)
        number == FirstNumber(title)
    IN  (IF \E w \in FirstKeywords : Contains(title, w) THEN 1000 ELSE 0)
      + (IF \E w \in SecondKeywords : Contains(title, w) THEN 900 ELSE 0)
      + (IF IsNone(number) THEN 0 ELSE 800 - Get(number))
      + Max(0, 100 - WordCount(title))
      + Max(0, 50 - SplitCount(lurl, "/"))

\* Mutant of sort_key: the sign is not turned, the order is ascending.
sort_key_ascending(page) == Score(page)

\* sort_key(page): the negated score, so that ascending is descending.
sort_key(page) == 0 - Score(page)

\* The number of leading elements of s whose key is at most k.
RECURSIVE KeysAtMost(_, _)
KeysAtMost(s, k) ==
    IF s = <<>> \/ sort_key(Head(s)) > k THEN 0
    ELSE 1 + KeysAtMost(Tail(s), k)

\* A page put into a list sorted by key, after the pages of equal key.
InsertByKey(s, page) ==
    LET n == KeysAtMost(s, sort_key(page)) IN
    SubSeq(s, 1, n) \o <<page>> \o SubSeq(s, n + 1, Len(s))

\* sorted(pages, key=sort_key): ascending by key, and stable: pages of
\* equal key keep the order they have in pages.
RECURSIVE _sort_pages(_)
_sort_pages(ps) ==
    IF ps = <<>> THEN <<>>
    ELSE InsertByKey(_sort_pages(SubSeq(ps, 1, Len(ps) - 1)), ps[Len(ps)])

(***************************************************************************)
(* URLs, as urllib.parse reads and joins them. The hrefs the model draws   *)
(* hold no "." or ".." segment and no parameters.                          *)
(***************************************************************************)
\* The position of the colon that ends the scheme of u; 0: u has no scheme.
RECURSIVE SchemeScan(_, _)
SchemeScan(u, i) ==
    IF i > Len(u) THEN 0
    ELSE LET c == Char(u, i) IN
         IF c = ":" THEN (IF i > 1 THEN i ELSE 0)
         ELSE IF IsLetter(c) \/ (i > 1 /\ (IsDigit(c) \/ c \in {"+", ".", "-"}))
              THEN SchemeScan(u, i + 1)
              ELSE 0

SchemeEnd(u) == SchemeScan(u, 1)

\* The length of the leading part of s that holds none of the characters stop.
SpanUntil(s, stop) ==
    LET hits == {i \in 1..Len(s) : Char(s, i) \in stop} IN
    IF hits = {} THEN Len(s) ELSE MinOf(hits) - 1

\* What follows the scheme and its colon.
AfterScheme(u) == SubSeq(u, SchemeEnd(u) + 1, Len(u))

\* urlparse(u).scheme, .netloc and .path.
UrlScheme(u) == Lower(SubSeq(u, 1, SchemeEnd(u) - 1))

Netloc(u) ==
    LET rest == AfterScheme(u) IN
    IF StartsWith(rest, "//")
    THEN SubSeq(rest, 3, 2 + SpanUntil(SubSeq(rest, 3, Len(rest)), {"/", "?", "#"}))
    ELSE ""

UrlPath(u) ==
    LET rest == AfterScheme(u)
        from == IF StartsWith(rest, "//") THEN 3 + Len(Netloc(u)) ELSE 1
        tail == SubSeq(rest, from, Len(rest))
    IN  SubSeq(tail, 1, SpanUntil(tail, {"?", "#"}))

\* The scheme and network location of u, as they begin it.
Origin(u) == UrlScheme(u) \o "://" \o Netloc(u)

\* The length of the part of path up to and with its last slash.
RECURSIVE LastSlash(_)
LastSlash(path) ==
    IF path = "" \/ Char(path, Len(path)) = "/" THEN Len(path)
    ELSE LastSlash(SubSeq(path, 1, Len(path) - 1))

\* urljoin(base, href), for a base with a scheme and a network location; an
\* href that has a scheme has a network location too, or another scheme
\* than the base.
urljoin(base, href) ==
    IF href = "" THEN base
    ELSE IF SchemeEnd(href) > 0
         THEN IF UrlScheme(href) = UrlScheme(base)
              THEN UrlScheme(href) \o SubSeq(href, SchemeEnd(href), Len(href))
              ELSE href
    ELSE IF StartsWith(href, "//") THEN UrlScheme(base) \o ":" \o href
    ELSE IF StartsWith(href, "/") THEN Origin(base) \o href
    ELSE IF StartsWith(href, "#")
         THEN SubSeq(base, 1, SpanUntil(base, {"#"})) \o href
    ELSE IF StartsWith(href, "?")
         THEN SubSeq(base, 1, SpanUntil(base, {"?", "#"})) \o href
    ELSE LET path == UrlPath(base)
             dir == SubSeq(path, 1, LastSlash(path))
         IN  Origin(base) \o (IF dir = "" THEN "/" ELSE dir) \o href

(***************************************************************************)
(* ScrapingStrategy._is_valid_page_url and _discover_navigation            *)
(***************************************************************************)
\* The skip patterns that are plain substrings.
SkipSubstrings ==
    {"/search", "/login", "/logout", "/edit", "/admin", "/api/", "/assets/",
     "/static/", "mailto:", "tel:", "javascript:"}

\* The skip patterns \.(css|js|json|xml|rss|txt)$ and
\* \.(jpg|png|gif|svg|ico|pdf)$.
SkipSuffixes ==
    {".css", ".js", ".json", ".xml", ".rss", ".txt",
     ".jpg", ".png", ".gif", ".svg", ".ico", ".pdf"}

_is_valid_page_url(u, base_domain) ==
    IF u = "" \/ StartsWith(u, "#") THEN FALSE
    ELSE IF Netloc(u) # base_domain THEN FALSE
    ELSE LET url_lower == Lower(u) IN
         /\ \A p \in SkipSubstrings : ~Contains(url_lower, p)
         /\ \A p \in SkipSuffixes : ~EndsWith(url_lower, p)

\* self.nav_selectors. A parsed page (soup) is the sequence of what
\* soup.select gives for each of them: a list of anchors, each with its
\* href attribute and its text.
nav_selectors ==
    <<"[data-testid=\"sidebar\"] a[href]", "[data-testid=\"navigation\"] a[href]",
      ".sidebar a[href]", ".navigation a[href]",
      ".book-summary a[href]", ".summary a[href]",
      "nav a[href]", ".nav a[href]", ".toc a[href]", "aside a[href]">>

Min(a, b) == IF a <= b THEN a ELSE b

\* The inner loop (lines 83-98): the links of one selector's anchors.
RECURSIVE LinksOf(_, _, _)
LinksOf(anchors, root, base_domain) ==
    IF anchors = <<>> THEN <<>>
    ELSE LET href == Head(anchors).href
             text == Strip(Head(anchors).text)
             abs_url == urljoin(root, href)
             rest == LinksOf(Tail(anchors), root, base_domain)
         IN  IF href = "" \/ text = "" THEN rest
             ELSE IF _is_valid_page_url(abs_url, base_domain)
                  THEN <<[url |-> abs_url,
                          title |-> SubSeq(text, 1, Min(100, Len(text)))]>>
                       \o rest
                  ELSE rest

\* The outer loop (lines 80-102), from selector i on with the links so far:
\* SelectorCascade adds the links of selector i, AfterSelector is the test
\* that follows them (lines 100-102).
RECURSIVE SelectorCascade(_, _, _, _), AfterSelector(_, _, _, _)
SelectorCascade(soup, i, links, root) ==
    IF i > Len(nav_selectors) THEN links
    ELSE AfterSelector(soup, i, links \o LinksOf(soup[i], root, Netloc(root)),
                       root)

AfterSelector(soup, i, links, root) ==
    IF Len(links) > 5 THEN links
    ELSE SelectorCascade(soup, i + 1, links, root)

\* Lines 104-111: the first link of each url, in the order first seen.
RECURSIVE UniqueFrom(_, _)
UniqueFrom(links, seen_urls) ==
    IF links = <<>> THEN <<>>
    ELSE IF Head(links).url \in seen_urls
         THEN UniqueFrom(Tail(links), seen_urls)
         ELSE <<Head(links)>>
              \o UniqueFrom(Tail(links), seen_urls \cup {Head(links).url})

\* Mutant of unique_links: the duplicates stay.
unique_links_kept(links) == links

unique_links(links) == UniqueFrom(links, {})

\* _discover_navigation(url), given what the server answers: an error of the
\* transport or the parser, or a status with a parsed page.
_discover_navigation(root, response) ==
    IF response.kind = "error" THEN <<>>
    ELSE IF response.status # 200 THEN <<>>
    ELSE unique_links(SelectorCascade(response.soup, 1, <<>>, root))

\* Lines 47-49 of extract_pages: the root page alone when nothing was found.
OrMainPage(found, root) ==
    IF found = <<>> THEN <<[url |-> root, title |-> "Main Page"]>> ELSE found

\* Lines 52-54 of extract_pages: the section filter.
InSectionPath(links, section) ==
    LET InSection(link) == Contains(Lower(link.url), Lower(Get(section)))
    IN  IF IsNone(section) \/ Get(section) = "" THEN links
        ELSE SelectSeq(links, InSection)

\* Lines 45-54 of extract_pages: the discovered links, the root page alone
\* when there are none, and the section filter.
LinksToDownload(root, response, section) ==
    InSectionPath(OrMainPage(_discover_navigation(root, response), root),
                  section)

(***************************************************************************)
(* ScrapingStrategy.extract_pages and _download_pages                      *)
(***************************************************************************)
\* The largest max_concurrent the model draws.
MaxConcurrent == 2

\* The root URL the model gives to extract_pages.
RootUrl == "https://docs.acme.com"

\* The anchors of the pages the model draws.
aIntro == [href |-> "/guide/intro", text |-> " Introduction\n"]
aAlpha == [href |-> "/guide/alpha", text |-> "Alpha"]
aAlphaAbs == [href |-> "https://docs.acme.com/guide/alpha", text |-> "Alpha again"]
aBeta == [href |-> "/ref/beta", text |-> "Beta"]
aChapter == [href |-> "chapter-12", text |-> "Chapter 12"]
aTop == [href |-> "#top", text |-> "Top"]
aOffSite == [href |-> "https://github.com/acme", text |-> "GitHub"]
aSearch == [href |-> "/search?q=x", text |-> "Search"]
aBlank == [href |-> "/guide/blank", text |-> "  "]

\* A parsed page whose selectors i and j match the anchors a and b, and
\* whose other selectors match nothing.
SoupWith(i, a, j, b) ==
    [k \in 1..Len(nav_selectors) |->
        IF k = i THEN a ELSE IF k = j THEN b ELSE <<>>]

\* The root pages the model draws: a sidebar that two selectors match (its
\* links are found twice), a page without navigation, a navigation with a
\* fragment, an off-site, an excluded, a blank and a repeated link, a
\* navigation of two chapters, and a sidebar that two selectors match
\* followed by an aside that a third selector matches.
SampleSoups ==
    {SoupWith(3, <<aIntro, aAlpha, aBeta>>, 7, <<aIntro, aAlpha, aBeta>>),
     SoupWith(1, <<>>, 2, <<>>),
     SoupWith(1, <<aAlpha, aTop, aOffSite, aSearch>>,
              4, <<aBlank, aAlphaAbs, aBeta>>),
     SoupWith(7, <<aChapter, aIntro>>, 8, <<>>),
     [SoupWith(3, <<aIntro, aAlpha, aBeta>>, 7, <<aIntro, aAlpha, aBeta>>)
         EXCEPT ![10] = <<aChapter>>]}

\* What the server may answer to the request of the root page.
RootResponses ==
    {[kind |-> "response", status |-> 200, soup |-> s] : s \in SampleSoups}
    \cup {[kind |-> "response", status |-> 404, soup |-> SoupWith(1, <<>>, 2, <<>>)],
          [kind |-> "error", status |-> 0, soup |-> SoupWith(1, <<>>, 2, <<>>)]}

\* The texts _extract_main_content may give for a fetched page: 51
\* characters, 50 characters within surrounding whitespace, and nothing.
LongContent == Repeat("0123456789", 5) \o "x"
ShortContent == "  " \o Repeat("0123456789", 5) \o "\n\n"

\* What a fetch task may meet: a status with the extracted text of the
\* body, or an error of the transport, the timeout or the parser.
PageResponses ==
    {[kind |-> "response", status |-> 200, content |-> LongContent],
     [kind |-> "response", status |-> 200, content |-> ShortContent],
     [kind |-> "response", status |-> 200, content |-> ""],
     [kind |-> "response", status |-> 203, content |-> LongContent],
     [kind |-> "response", status |-> 404, content |-> LongContent],
     [kind |-> "error", status |-> 0, content |-> ""]}

\* Mutant of SubstantiveContent: 50 characters are enough.
SubstantiveContentFrom50(content) == content # "" /\ Len(Strip(content)) >= 50

\* Line 163: content and len(content.strip()) > 50.
SubstantiveContent(content) == content # "" /\ Len(Strip(content)) > 50

\* Lines 159-170: whether a task that met response r appends a page.
YieldsPage(r) ==
    r.kind = "response" /\ r.status = 200 /\ SubstantiveContent(r.content)

\* Mutant of SlotFree: the semaphore lets every task in.
SlotAlwaysFree(value) == TRUE

\* asyncio.Semaphore: a slot is free while the counter is positive.
SlotFree(value) == value > 0

InitScraping ==
    /\ url = RootUrl
    /\ section_path \in {None, Some("Guide")}
    /\ max_concurrent \in 1..MaxConcurrent
    /\ root_response \in RootResponses
    /\ spc = "discover"
    /\ nav_links = <<>>
    /\ task = <<>>
    /\ sem_value = 0
    /\ waiters = <<>>
    /\ fetched = <<>>
    /\ returned = None
    /\ sorted_pages = None
    /\ strategy = "scraping"
    /\ keep_temp = FALSE
    /\ include_assets = FALSE
    /\ pc = "idle"
    /\ idx = 1
    /\ pages = None
    /\ successful_strategy = None
    /\ calls = <<>>
    /\ stats = InitialStats
    /\ final_content = None
    /\ old_file = None
    /\ out_file = None
    /\ f_buf = None
    /\ opened = FALSE
    /\ cleanup_ran = FALSE
    /\ temp_dirs = {}
    /\ error = None
    /\ result = None
    /\ ConsolidatorIdle

\* Lines 44-54: discovery, the fallback to the root page, the section filter.
Discover ==
    /\ spc = "discover"
    /\ nav_links' = LinksToDownload(url, root_response, section_path)
    /\ spc' = "download"
    /\ UNCHANGED <<url, section_path, max_concurrent, root_response, task,
                   sem_value, waiters, fetched, returned, sorted_pages>>
    /\ UNCHANGED <<dlVars, coVars>>

\* Lines 149-177: the semaphore, the empty list pages, and one task per link.
StartDownload ==
    /\ spc = "download"
    /\ sem_value' = max_concurrent
    /\ fetched' = <<>>
    /\ waiters' = <<>>
    /\ task' = [t \in 1..Len(nav_links) |->
                  [pc |-> "created", slept |-> FALSE, response |-> None]]
    /\ spc' = "gather"
    /\ UNCHANGED <<url, section_path, max_concurrent, root_response, nav_links,
                   returned, sorted_pages>>
    /\ UNCHANGED <<dlVars, coVars>>

\* Line 153, async with semaphore: the tasks start in the order gather was
\* given them; a task takes a free slot and begins its delay, or waits.
EnterSemaphore(t) ==
    /\ spc = "gather"
    /\ task[t].pc = "created"
    /\ \A u \in 1..(t - 1) : task[u].pc # "created"
    /\ IF SlotFree(sem_value) /\ waiters = <<>>
       THEN /\ sem_value' = sem_value - 1
            /\ task' = [task EXCEPT ![t].pc = "sleeping"]
            /\ UNCHANGED waiters
       ELSE /\ waiters' = Append(waiters, t)
            /\ task' = [task EXCEPT ![t].pc = "waiting"]
            /\ UNCHANGED sem_value
    /\ UNCHANGED <<url, section_path, max_concurrent, root_response, spc,
                   nav_links, fetched, returned, sorted_pages>>
    /\ UNCHANGED <<dlVars, coVars>>

\* The semaphore wakes its first waiter once a slot is free.
LeaveQueue(t) ==
    /\ spc = "gather"
    /\ waiters # <<>> /\ Head(waiters) = t
    /\ SlotFree(sem_value)
    /\ sem_value' = sem_value - 1
    /\ waiters' = Tail(waiters)
    /\ task' = [task EXCEPT ![t].pc = "sleeping"]
    /\ UNCHANGED <<url, section_path, max_concurrent, root_response, spc,
                   nav_links, fetched, returned, sorted_pages>>
    /\ UNCHANGED <<dlVars, coVars>>

\* Lines 154-158: the delay is over and the request is issued.
IssueRequest(t) ==
    /\ spc = "gather"
    /\ task[t].pc = "sleeping"
    /\ task' = [task EXCEPT ![t].pc = "requesting", ![t].slept = TRUE]
    /\ UNCHANGED <<url, section_path, max_concurrent, root_response, spc,
                   nav_links, sem_value, waiters, fetched, returned,
                   sorted_pages>>
    /\ UNCHANGED <<dlVars, coVars>>

\* Lines 158-173: the response arrives, or the request fails and the except
\* of the task passes over it; a page is appended for a 200 with
\* substantive content; the slot is given back.
FinishRequest(t) ==
    /\ spc = "gather"
    /\ task[t].pc = "requesting"
    /\ \E r \in PageResponses :
        /\ task' = [task EXCEPT ![t].pc = "done", ![t].response = Some(r)]
        /\ fetched' = IF YieldsPage(r)
                      THEN Append(fetched, [title |-> nav_links[t].title,
                                            url |-> nav_links[t].url,
                                            content |-> r.content,
                                            source |-> "scraping"])
                      ELSE fetched
    /\ sem_value' = sem_value + 1
    /\ UNCHANGED <<url, section_path, max_concurrent, root_response, spc,
                   nav_links, waiters, returned, sorted_pages>>
    /\ UNCHANGED <<dlVars, coVars>>

\* asyncio.gather(*tasks, return_exceptions=True) is over.
AllTasksDone == \A t \in 1..Len(task) : task[t].pc = "done"

\* Lines 177-179 and 59: gather returns once every task has ended, and
\* extract_pages returns the list pages.
ReturnPages ==
    /\ spc = "gather"
    /\ AllTasksDone
    /\ returned' = Some(fetched)
    /\ spc' = "returned"
    /\ UNCHANGED <<url, section_path, max_concurrent, root_response, nav_links,
                   task, sem_value, waiters, fetched, sorted_pages>>
    /\ UNCHANGED <<dlVars, coVars>>

\* The consolidator sorts the pages the strategy returned (line 21 of
\* consolidate_pages, which download() calls with a non-empty list).
SortReturned ==
    /\ spc = "returned"
    /\ Get(returned) # <<>>
    /\ sorted_pages' = Some(_sort_pages(Get(returned)))
    /\ spc' = "sorted"
    /\ UNCHANGED <<url, section_path, max_concurrent, root_response, nav_links,
                   task, sem_value, waiters, fetched, returned>>
    /\ UNCHANGED <<dlVars, coVars>>

NextScraping ==
    \/ Discover
    \/ StartDownload
    \/ \E t \in DOMAIN task : EnterSemaphore(t)
    \/ \E t \in DOMAIN task : LeaveQueue(t)
    \/ \E t \in DOMAIN task : IssueRequest(t)
    \/ \E t \in DOMAIN task : FinishRequest(t)
    \/ ReturnPages
    \/ SortReturned

SpecScraping == InitScraping /\ [][NextScraping]_vars

(***************************************************************************)
(* Properties of the scraping strategy, checked under SpecScraping.        *)
(***************************************************************************)
\* The pages of ps whose url is that of link, in the order of ps.
PagesOfLink(ps, link) ==
    LET OfLink(page) == page.url = link.url IN SelectSeq(ps, OfLink)

\* The pages of ps, arranged as their links are in nav_links: what the
\* pipeline returns when its tasks complete in the order of the links.
RECURSIVE InLinkOrder(_, _)
InLinkOrder(ps, links) ==
    IF links = <<>> THEN <<>>
    ELSE PagesOfLink(ps, Head(links)) \o InLinkOrder(ps, Tail(links))

\* C5: the section order after the consolidator's sort does not depend on
\* the order in which the fetch tasks completed: it is the order the same
\* pages get when the tasks complete in the order of their links.
C5_OrderIndependentOfCompletion ==
    ~IsNone(sorted_pages) =>
        Get(sorted_pages) = _sort_pages(InLinkOrder(Get(returned), nav_links))

\* The tasks that hold a slot of the semaphore: in their delay, or with
\* their request in flight.
InSlot == {t \in DOMAIN task : task[t].pc \in {"sleeping", "requesting"}}

\* C8: at every moment the tasks that hold a slot are at most
\* max_concurrent, each of them accounts for one unit of the semaphore,
\* and a task whose request is in flight has completed its delay.
C8_BoundedConcurrency ==
    /\ Cardinality(InSlot) <= max_concurrent
    /\ spc \in {"gather", "returned", "sorted"} =>
           sem_value = max_concurrent - Cardinality(InSlot)
    /\ \A t \in DOMAIN task : task[t].pc = "requesting" => task[t].slept

\* The case of C8: every slot is taken, one task has its request in
\* flight, another is in its delay, and a third waits for a slot.
C8_Witness ==
    /\ max_concurrent = 2
    /\ Cardinality(InSlot) = 2
    /\ \E t \in DOMAIN task : task[t].pc = "requesting"
    /\ \E t \in DOMAIN task : task[t].pc = "sleeping"
    /\ \E t \in DOMAIN task : task[t].pc = "waiting"

\* No two pages of ps have the same url.
UniqueUrls(ps) ==
    \A i, j \in 1..Len(ps) : i # j => ps[i].url # ps[j].url

\* C9: the page list of a run of the scraping strategy never holds two
\* pages with the same url, while it is built and when it is returned.
C9_UrlsUnique ==
    /\ UniqueUrls(fetched)
    /\ ~IsNone(returned) => UniqueUrls(Get(returned))

\* The case of C9: the links of the root page were found twice, by two
\* selectors, and the strategy returned a page for each of the three.
C9_Witness ==
    /\ ~IsNone(returned)
    /\ Len(Get(returned)) = 3
    /\ root_response.soup[3] # <<>>
    /\ root_response.soup[3] = root_response.soup[7]

\* The tasks whose response is in the set of statuses ok and whose text has
\* more than 50 characters after trimming.
TasksWith(ok) ==
    {t \in DOMAIN task :
        /\ ~IsNone(task[t].response)
        /\ Get(task[t].response).kind = "response"
        /\ Get(task[t].response).status \in ok
        /\ Len(Strip(Get(task[t].response).content)) > 50}

\* ps holds exactly one page for each task of ts, and no other page.
OnePagePerTask(ps, ts) ==
    /\ Len(ps) = Cardinality(ts)
    /\ \A t \in ts :
        \E i \in 1..Len(ps) :
            /\ ps[i].url = nav_links[t].url
            /\ ps[i].title = nav_links[t].title
            /\ ps[i].content = Get(task[t].response).content

\* C10, as claimed: the pipeline returns only after every task has ended,
\* and what it returns holds exactly one page per task that succeeded (a
\* 2xx status and no error) with more than 50 characters of trimmed text.
C10_OnePagePerSuccess2xx ==
    ~IsNone(returned) =>
        /\ \A t \in DOMAIN task : task[t].pc = "done"
        /\ OnePagePerTask(Get(returned), TasksWith(200..299))

\* C10, amended: the pipeline returns only after every task has ended, and
\* what it returns holds exactly one page per task that met status 200 with
\* more than 50 characters of trimmed text; a task that met another status
\* or an error contributes no page and no error.
C10_OnePagePerStatus200 ==
    ~IsNone(returned) =>
        /\ \A t \in DOMAIN task : task[t].pc = "done"
        /\ OnePagePerTask(Get(returned), TasksWith({200}))

\* The case of C10: of three tasks one met an error, one a 200 with 50
\* characters of text, one a 200 with 51, and the pipeline returned the
\* page of the last alone.
C10_Witness ==
    /\ ~IsNone(returned)
    /\ Len(task) = 3
    /\ Len(Get(returned)) = 1
    /\ \E t \in DOMAIN task : Get(task[t].response).kind = "error"
    /\ \E t \in DOMAIN task : Get(task[t].response).content = ShortContent
    /\ \E t \in DOMAIN task : Get(task[t].response).content = LongContent

\* The root page is renderable: the server answered the request of the root
\* page with a 200, and every request the pipeline issued met a 200 with
\* substantive content.
RootRenderable ==
    /\ root_response.kind = "response" /\ root_response.status = 200
    /\ \A t \in DOMAIN task :
          ~IsNone(task[t].response) /\ YieldsPage(Get(task[t].response))

\* C11: whenever discovery yields no link and the root page is renderable,
\* extract_pages, with or without a section filter, gives the pipeline the
\* single synthetic link of the root URL and returns the root page.
C11_RootFallbackNeverEmpty ==
    (/\ ~IsNone(returned)
     /\ _discover_navigation(url, root_response) = <<>>
     /\ RootRenderable)
        => /\ nav_links = <<[url |-> url, title |-> "Main Page"]>>
           /\ Len(Get(returned)) = 1
           /\ Get(returned)[1].url = url

\* The selector loop as C12 states it: it stops at the first selector whose
\* own links are more than 5, whatever the earlier selectors gave.
RECURSIVE CascadeStoppingAlone(_, _, _, _), AfterSelectorAlone(_, _, _, _, _)
CascadeStoppingAlone(soup, i, links, root) ==
    IF i > Len(nav_selectors) THEN links
    ELSE AfterSelectorAlone(soup, i, links,
                            LinksOf(soup[i], root, Netloc(root)), root)

AfterSelectorAlone(soup, i, links, own, root) ==
    IF Len(own) > 5 THEN links \o own
    ELSE CascadeStoppingAlone(soup, i + 1, links \o own, root)

\* C12: discovery stops advancing exactly when a single selector, by
\* itself, has yielded more than 5 valid links: the links it gives to the
\* pipeline are those of the loop that counts each selector alone.
C12_ThresholdPerSelector ==
    (/\ spc # "discover"
     /\ IsNone(section_path)
     /\ root_response.kind = "response" /\ root_response.status = 200)
        => nav_links =
               OrMainPage(unique_links(CascadeStoppingAlone(root_response.soup,
                                                            1, <<>>, url)),
                          url)

\* The anchors of the root page, of every selector.
AnchorsOf(soup) ==
    UNION {{soup[k][n] : n \in 1..Len(soup[k])} : k \in DOMAIN soup}

\* u matches one of the exclusion patterns.
Excluded(u) ==
    \/ \E p \in SkipSubstrings : Contains(Lower(u), p)
    \/ \E p \in SkipSuffixes : EndsWith(Lower(u), p)

\* C13: every link discovery gives has the host of the root URL, matches no
\* exclusion pattern, and does not come from a fragment-only href ("#...").
C13_RetainedLinksValid ==
    (/\ spc # "discover"
     /\ IsNone(section_path)
     /\ _discover_navigation(url, root_response) # <<>>)
        => \A n \in 1..Len(nav_links) :
              /\ Netloc(nav_links[n].url) = Netloc(url)
              /\ ~Excluded(nav_links[n].url)
              /\ \A a \in AnchorsOf(root_response.soup) :
                    StartsWith(a.href, "#")
                        => urljoin(url, a.href) # nav_links[n].url

(***************************************************************************)
(* ContentConsolidator: the header, the pages and the document             *)
(***************************************************************************)
\* s.replace(old, new), for a non-empty old.
RECURSIVE Replace(_, _, _)
Replace(s, old, new) ==
    LET i == Find(s, old) IN
    IF i = 0 THEN s
    ELSE SubSeq(s, 1, i - 1) \o new
         \o Replace(SubSeq(s, i + Len(old), Len(s)), old, new)

\* s.title(), of the characters lo..hi of s: a letter that follows a letter
\* is lowered, any other letter is raised.
RECURSIVE TitleRange(_, _, _)
TitleRange(s, lo, hi) ==
    IF lo > hi THEN ""
    ELSE IF lo = hi
         THEN IF lo > 1 /\ IsLetter(Char(s, lo - 1))
              THEN LowerChar(Char(s, lo)) ELSE UpperChar(Char(s, lo))
    ELSE LET mid == (lo + hi) \div 2 IN
         TitleRange(s, lo, mid) \o TitleRange(s, mid + 1, hi)

Title(s) == TitleRange(s, 1, Len(s))

\* The elements of a finite set of numbers, ascending.
RECURSIVE Ascending(_)
Ascending(S) ==
    IF S = {} THEN <<>>
    ELSE LET m == MinOf(S) IN <<m>> \o Ascending(S \ {m})

\* s.split(c), for a character c.
Split(s, c) ==
    LET at == Ascending({i \in 1..Len(s) : Char(s, i) = c})
        from(k) == IF k = 1 THEN 1 ELSE at[k - 1] + 1
        to(k) == IF k > Len(at) THEN Len(s) ELSE at[k] - 1
    IN  [k \in 1..(Len(at) + 1) |-> SubSeq(s, from(k), to(k))]

\* sep.join(parts), of the parts lo..hi.
RECURSIVE JoinRange(_, _, _, _)
JoinRange(parts, sep, lo, hi) ==
    IF lo > hi THEN ""
    ELSE IF lo = hi THEN parts[lo]
    ELSE LET mid == (lo + hi) \div 2 IN
         JoinRange(parts, sep, lo, mid) \o sep \o JoinRange(parts, sep, mid + 1, hi)

\* sep.join(parts).
Join(parts, sep) == JoinRange(parts, sep, 1, Len(parts))

\* The length of the run of the character c that begins s.
RECURSIVE RunLength(_, _)
RunLength(s, c) ==
    IF s # "" /\ Head(s) = c THEN 1 + RunLength(Tail(s), c) ELSE 0

\* re.sub(r'\n{4,}', '\n\n\n', s).
RECURSIVE CollapseNewlines(_)
CollapseNewlines(s) ==
    LET i == Find(s, "\n\n\n\n") IN
    IF i = 0 THEN s
    ELSE LET rest == SubSeq(s, i, Len(s))
             n == RunLength(rest, "\n")
         IN  SubSeq(s, 1, i - 1) \o "\n\n\n"
             \o CollapseNewlines(SubSeq(rest, n + 1, Len(rest)))

\* re.sub(r'^#{7,}', '######', line), for one line.
CapHeading(line) ==
    LET n == RunLength(line, "#") IN
    IF n >= 7 THEN "######" \o SubSeq(line, n + 1, Len(line)) ELSE line

\* The two digits of n, for n below 100.
TwoDigits(n) == ToString(n \div 10) \o ToString(n % 10)

\* datetime.now().strftime('%Y-%m-%d %H:%M:%S UTC'): the clock counts the
\* half seconds since 2024-01-01 00:00:00 and stays within that day; the
\* format drops the fraction of the second.
FormatTime(now) ==
    LET secs == now \div 2 IN
    "2024-01-01 " \o TwoDigits(secs \div 3600) \o ":"
        \o TwoDigits((secs \div 60) % 60) \o ":" \o TwoDigits(secs % 60) \o " UTC"

\* _generate_header(base_url, section_path, page_count), at the time now.
_generate_header(base, section, page_count, now) ==
    LET domain == Netloc(base)
        name == Title(Replace(Replace(domain, ".gitbook.io", ""), ".com", ""))
        given == ~IsNone(section) /\ Get(section) # ""
        title == IF given
                 THEN name \o " - " \o Title(Replace(Get(section), "/", " / "))
                 ELSE name
    IN  "# " \o title \o "\n\n"
        \o "*Downloaded with GitBook Multi-Strategy Downloader v4.0*\n\n"
        \o "**Source:** " \o base \o "  \n"
        \o "**Pages:** " \o ToString(page_count) \o "  \n"
        \o "**Downloaded:** " \o FormatTime(now) \o "  \n"
        \o (IF given THEN "**Section:** " \o Get(section) \o "  \n" ELSE "")
        \o "\n---\n"

\* Lines 157-165 of _clean_content: the index after the last top-level
\* heading among the leading blank and top-level heading lines.
RECURSIVE StartIndex(_, _, _)
StartIndex(lines, i, start_idx) ==
    IF i > Len(lines) THEN start_idx
    ELSE LET line == Strip(lines[i]) IN
         IF line = "" THEN StartIndex(lines, i + 1, start_idx)
         ELSE IF StartsWith(line, "# ") THEN StartIndex(lines, i + 1, i)
         ELSE start_idx

\* re.match(r'^#{1,5}\s', line).
IsHeading(line) ==
    LET n == RunLength(line, "#") IN
    n >= 1 /\ n <= 5 /\ Len(line) > n /\ Char(line, n + 1) \in Whitespace

\* _clean_content(content).
_clean_content(content) ==
    LET lines == Split(content, "\n")
        start_idx == StartIndex(lines, 1, 0)
        kept == SubSeq(lines, start_idx + 1, Len(lines))
        adjusted == [i \in 1..Len(kept) |->
                        IF IsHeading(kept[i]) THEN "#" \o kept[i] ELSE kept[i]]
    IN  Strip(CollapseNewlines(Join(adjusted, "\n")))

\* _process_page_content(page, page_num): None for a page without content,
\* else the provenance line (for a page with a url) and the cleaned content.
_process_page_content(page) ==
    IF page.content = "" \/ Strip(page.content) = "" THEN None
    ELSE LET processed_content == _clean_content(page.content) IN
         Some(IF page.url # ""
              THEN Join(<<"*Source: " \o page.url \o "*\n", processed_content>>, "\n")
              ELSE processed_content)

\* _post_process_content(content).
_post_process_content(content) ==
    LET collapsed == CollapseNewlines(content)
        lines == Split(collapsed, "\n")
        capped == [i \in 1..Len(lines) |-> CapHeading(lines[i])]
    IN  RStrip(Join(capped, "\n")) \o "\n"

\* Lines 37-41: the parts of the pages of sorted_list: a page whose
\* processed content is a non-empty string gives it and a separator.
RECURSIVE PageParts(_)
PageParts(sorted_list) ==
    IF sorted_list = <<>> THEN <<>>
    ELSE LET page_content == _process_page_content(Head(sorted_list)) IN
         (IF ~IsNone(page_content) /\ Get(page_content) # ""
          THEN <<Get(page_content), "\n---\n">>
          ELSE <<>>)
         \o PageParts(Tail(sorted_list))

\* consolidate_pages(pages, base_url, section_path), at the time now.
consolidate_pages(ps, base, section, now) ==
    IF ps = <<>>
    THEN "# No Content Found\n\nNo pages were successfully downloaded."
    ELSE _post_process_content(
             Join(<<_generate_header(base, section, Len(ps), now)>>
                  \o PageParts(_sort_pages(ps)), "\n"))

(***************************************************************************)
(* The consolidator applied to drawn page lists.                           *)
(***************************************************************************)
\* The longest page list the model gives to the consolidator.
MaxDocPages == 2
\* The last value of the clock, in half seconds.
MaxClock == 2

\* A url of more than fifty path segments.
DeepUrl == RootUrl \o Repeat("/s", 50)

\* The content the model gives to a page of each title: a top-level heading
\* with a body, a second-level heading with a body, a body alone, a
\* top-level heading alone.
ContentOf(title) ==
    IF title = "Introduction" THEN "# Intro\nHello"
    ELSE IF title = "Chapter 2" THEN "## Body\ntext"
    ELSE IF title = "Getting Started" THEN "Install it."
    ELSE "# Chapter 12"

\* A page as a strategy returns it.
Page(title, u) ==
    [title |-> title, url |-> u, content |-> ContentOf(title),
     source |-> "scraping"]

\* The pages the model draws: the urls go from no url (one path part, the
\* most the url term of the score gives) to a deep url (more than fifty
\* parts, the least it gives); the titles have a keyword of the first list,
\* a number, and keywords of both lists ("start" and "getting started").
PagePool ==
    {Page("Introduction", ""), Page("Introduction", DeepUrl),
     Page("Chapter 12", ""), Page("Chapter 12", RootUrl \o "/p"),
     Page("Chapter 2", RootUrl \o "/p"),
     Page("Getting Started", RootUrl \o "/p")}

\* The page lists of at most n pages.
RECURSIVE PageLists(_)
PageLists(n) ==
    IF n = 0 THEN {<<>>}
    ELSE LET shorter == PageLists(n - 1) IN
         shorter \cup {Append(ps, p) : ps \in {q \in shorter : Len(q) = n - 1},
                                        p \in PagePool}

InitConsolidator ==
    /\ c_pages \in PageLists(MaxDocPages)
    /\ \E cfg \in {<<"https://acme.gitbook.io/docs", Some("guide/intro")>>,
                   <<RootUrl, None>>} :
        /\ base_url = cfg[1]
        /\ c_section = cfg[2]
    /\ clock = 0
    /\ docs = <<>>
    /\ c_sorted = None
    /\ strategy = "auto"
    /\ keep_temp = FALSE
    /\ include_assets = FALSE
    /\ pc = "idle"
    /\ idx = 1
    /\ pages = None
    /\ successful_strategy = None
    /\ calls = <<>>
    /\ stats = InitialStats
    /\ final_content = None
    /\ old_file = None
    /\ out_file = None
    /\ f_buf = None
    /\ opened = FALSE
    /\ cleanup_ran = FALSE
    /\ temp_dirs = {}
    /\ error = None
    /\ result = None
    /\ ScrapingIdle

\* Half a second passes.
Tick ==
    /\ clock < MaxClock
    /\ clock' = clock + 1
    /\ UNCHANGED <<c_pages, base_url, c_section, docs, c_sorted>>
    /\ UNCHANGED <<dlVars, scVars>>

\* _sort_pages(pages) is called.
CallSortPages ==
    /\ IsNone(c_sorted)
    /\ c_sorted' = Some(_sort_pages(c_pages))
    /\ UNCHANGED <<c_pages, base_url, c_section, clock, docs>>
    /\ UNCHANGED <<dlVars, scVars>>

\* consolidate_pages(pages, base_url, section_path) is called, a first and
\* a second time, with the same arguments.
CallConsolidatePages ==
    /\ Len(docs) < 2
    /\ docs' = Append(docs, consolidate_pages(c_pages, base_url, c_section, clock))
    /\ UNCHANGED <<c_pages, base_url, c_section, clock, c_sorted>>
    /\ UNCHANGED <<dlVars, scVars>>

NextConsolidator ==
    \/ Tick
    \/ CallSortPages
    \/ CallConsolidatePages

SpecConsolidator == InitConsolidator /\ [][NextConsolidator]_vars

(***************************************************************************)
(* Properties of the consolidator, checked under SpecConsolidator.         *)
(***************************************************************************)
\* C6: two calls of consolidate_pages with the same page list, root URL and
\* section filter return the same text, whatever the time of each call.
C6_ConsolidationIdempotent ==
    Len(docs) = 2 => docs[1] = docs[2]

\* C7: in the sorted order every page titled "Introduction" comes before
\* every page titled "Chapter 12", whatever their urls and their order in
\* the input; the sort keeps every page.
C7_IntroductionBeforeChapter12 ==
    ~IsNone(c_sorted) =>
        LET out == Get(c_sorted) IN
        /\ Len(out) = Len(c_pages)
        /\ \A i, j \in 1..Len(out) :
              out[i].title = "Introduction" /\ out[j].title = "Chapter 12"
                  => i < j

\* The case of C7: the input has "Chapter 12" with the url that scores most
\* first and "Introduction" with the url that scores least second, and the
\* sort has put "Introduction" first.
C7_Witness ==
    /\ ~IsNone(c_sorted)
    /\ Len(c_pages) = 2
    /\ c_pages[1].title = "Chapter 12" /\ c_pages[1].url = ""
    /\ c_pages[2].title = "Introduction" /\ c_pages[2].url = DeepUrl
    /\ Get(c_sorted)[1].title = "Introduction"

\* The score as C14 states it: the 900 of the second keyword list is given
\* only to a title that has no keyword of the first list. The last term
\* counts the parts of the url between slashes, as sort_key does.
ClaimedScore(page) ==
    LET title == Lower(page.title)
        number == FirstNumber(title)
    IN  (IF \E w \in FirstKeywords : Contains(title, w) THEN 1000
         ELSE IF \E w \in SecondKeywords : Contains(title, w) THEN 900
         ELSE 0)
      + (IF IsNone(number) THEN 0 ELSE 800 - Get(number))
      + Max(0, 100 - WordCount(title))
      + Max(0, 50 - SplitCount(Lower(page.url), "/"))

\* C14: the score by which the pages were sorted is the stated formula, for
\* every page, and the sorted pages are in descending order of it.
C14_ScoreIsStatedFormula ==
    ~IsNone(c_sorted) =>
        /\ \A i \in 1..Len(c_pages) :
              0 - sort_key(c_pages[i]) = ClaimedScore(c_pages[i])
        /\ \A i, j \in 1..Len(Get(c_sorted)) :
              i < j => ClaimedScore(Get(c_sorted)[i])
                           >= ClaimedScore(Get(c_sorted)[j])

\* The number of places of s at which sub occurs.
Occurrences(s, sub) ==
    Cardinality({i \in 1..(Len(s) - Len(sub) + 1) :
                    SubSeq(s, i, i + Len(sub) - 1) = sub})

\* The content of page is empty after the per-page processing.
EmptyAfterProcessing(page) ==
    Strip(page.content) = "" \/ _clean_content(page.content) = ""

\* The pages of c_pages with content left after the processing.
PagesWithContent ==
    {i \in 1..Len(c_pages) : ~EmptyAfterProcessing(c_pages[i])}

\* C15: a page whose content is empty after the per-page processing gives
\* the document nothing: the document has one provenance line per page
\* that has a url and content left, and one separator after the header and
\* one per page that has content left.
C15_EmptyPagesSkipped ==
    \A k \in 1..Len(docs) :
        c_pages # <<>> =>
            /\ Occurrences(docs[k], "*Source: ")
                   = Cardinality({i \in PagesWithContent : c_pages[i].url # ""})
            /\ Occurrences(docs[k], "\n---\n")
                   = 1 + Cardinality(PagesWithContent)

====
